---- MODULE Spec2Model ----
(***************************************************************************)
(* Multi-block migration framework (crate `migratable`).                   *)
(*                                                                         *)
(* The model follows src/src/lib.rs (MigrationStep, NoopMigration,         *)
(* MigrateSequence for tuples), src/src/weights.rs (SubstrateWeight) and   *)
(* the code generated by src/procedural/src/lib.rs (Migration::migrate,    *)
(* OnRuntimeUpgrade::on_runtime_upgrade, the on_idle wrapper).             *)
(***************************************************************************)
EXTENDS Integers, Sequences, FiniteSets, TLC

VARIABLES
    Migrations,               \* T::Migrations: the tuple of MigrationStep types
    current_storage_version,  \* Pallet::current_storage_version(): the target
    on_chain_storage_version, \* Pallet::on_chain_storage_version(): the stored version
    MigrationInProgress,      \* StorageValue<_, Cursor, OptionQuery>
    panicked,                 \* a panic!/expect aborted the last call
    last,                     \* history: the last call, its arguments and what it did
    stepCalls,                \* history: step() calls made so far, per VERSION
    upgrade                   \* history: the call that started the migration

vars == <<Migrations, current_storage_version, on_chain_storage_version,
          MigrationInProgress, panicked, last, stepCalls, upgrade>>

----------------------------------------------------------------------------
(* Bounds of the model.                                                    *)

\* versions of steps, stored versions and targets range over 0..MaxVersion
MaxVersion == 3
\* a tuple of migrations has at most MaxTuple steps
MaxTuple == 2
\* step() calls a multi-call migration needs before it reports finished
MaxTotal == 2
\* T::DbWeight (frame_system::Config): ref_time of one storage read / write
DbRead == 2
DbWrite == 3

----------------------------------------------------------------------------
(* Weight: the two-component metric (ref_time, proof_size), with the       *)
(* operations of it the code uses.  Values stay far below u64::MAX, so the *)
(* saturation of additions at u64::MAX is never reached.                   *)

from_parts(ref_time, proof_size) == [ref_time |-> ref_time, proof_size |-> proof_size]

zero == from_parts(0, 0)

Monus(a, b) == IF a >= b THEN a - b ELSE 0

\* the element of a one-element set: { e(x) : x \in {v} } names a computed
\* value v once as x, the way a `let` of the code does
The(S) == CHOOSE x \in S : TRUE

all_gt(a, b) == a.ref_time > b.ref_time /\ a.proof_size > b.proof_size

any_gt(a, b) == a.ref_time > b.ref_time \/ a.proof_size > b.proof_size

all_gte(a, b) == a.ref_time >= b.ref_time /\ a.proof_size >= b.proof_size

saturating_add(a, b) ==
    from_parts(a.ref_time + b.ref_time, a.proof_size + b.proof_size)

\* saturating_sub / saturating_reduce: each component stops at zero
saturating_sub(a, b) ==
    from_parts(Monus(a.ref_time, b.ref_time), Monus(a.proof_size, b.proof_size))

\* variant: the reduction succeeds when some component suffices, the other
\* stopping at zero
checked_reduce_any(a, b) ==
    IF a.ref_time >= b.ref_time \/ a.proof_size >= b.proof_size
    THEN [is_some |-> TRUE, value |-> saturating_sub(a, b)]
    ELSE [is_some |-> FALSE, value |-> a]

\* variant: the reduction is checked but its result is not kept, so the
\* weight of the call is never deducted from the weight left
checked_reduce_not_kept(a, b) == [is_some |-> all_gte(a, b), value |-> a]

\* checked_reduce: None when any component would underflow
checked_reduce(a, b) ==
    IF all_gte(a, b)
    THEN [is_some |-> TRUE,
          value |-> from_parts(a.ref_time - b.ref_time, a.proof_size - b.proof_size)]
    ELSE [is_some |-> FALSE, value |-> a]

reads(n) == from_parts(DbRead * n, 0)

writes(n) == from_parts(DbWrite * n, 0)

(* SubstrateWeight<T> *)
migration_noop_weight ==
    saturating_add(saturating_add(from_parts(3489000, 1627), reads(1)), writes(1))

migrate_weight ==
    saturating_add(saturating_add(from_parts(13100000, 3631), reads(2)), writes(2))

on_runtime_upgrade_noop_weight ==
    saturating_add(from_parts(4994000, 3607), reads(1))

on_runtime_upgrade_in_progress_weight ==
    saturating_add(from_parts(6945000, 3632), reads(2))

on_runtime_upgrade_weight ==
    saturating_add(saturating_add(from_parts(7372000, 3607), reads(2)), writes(1))

----------------------------------------------------------------------------
(* MigrationStep implementations.  A step type is a record                 *)
(*   [kind, VERSION, total, max_step_weight, weight]                       *)
(* "noop"  is NoopMigration<VERSION>: a unit struct, finished at once.     *)
(* "count" is a multi-call migration whose progress state is a u16 counter *)
(*         of the calls made; it reports finished at call number `total`   *)
(*         and every call reports `weight` (<= max_step_weight).           *)
(* "over"  is a "count" whose calls report more than max_step_weight.      *)

NoopMigration(N) ==
    [kind |-> "noop", VERSION |-> N, total |-> 1,
     max_step_weight |-> zero, weight |-> zero]

CountMigration(N) ==
    [kind |-> "count", VERSION |-> N, total |-> MaxTotal,
     max_step_weight |-> from_parts(10, 4), weight |-> from_parts(10, 4)]

OverMigration(N) ==
    [kind |-> "over", VERSION |-> N, total |-> MaxTotal,
     max_step_weight |-> from_parts(10, 4), weight |-> from_parts(14, 3)]

StepTypes ==
    UNION { {NoopMigration(N), CountMigration(N), OverMigration(N)} : N \in 0..MaxVersion }

\* Cursor = BoundedVec<u8, ConstU32<1024>>
CursorBound == 1024

\* a "count" whose progress state carries, after the u16 counter, a byte
\* array that makes its encoding one byte longer than a Cursor can hold
WideMigration(N) ==
    [kind |-> "wide", VERSION |-> N, total |-> MaxTotal,
     max_step_weight |-> from_parts(10, 4), weight |-> from_parts(10, 4)]

\* the step types a tuple can be defined from, fitting a Cursor or not
AnyStepTypes == StepTypes \cup { WideMigration(N) : N \in 0..MaxVersion }

\* MaxEncodedLen::max_encoded_len()
max_encoded_len(T) ==
    IF T.kind = "noop" THEN 0 ELSE IF T.kind = "wide" THEN CursorBound + 1 ELSE 2

\* Default::default(): the progress state before any call
default(T) == 0

\* MigrationStep::step(&mut self) -> (IsFinished, Weight)
step(T, self) ==
    IF T.kind = "noop"
    THEN [self |-> self, finished |-> TRUE, weight |-> zero]
    ELSE [self |-> self + 1, finished |-> self + 1 >= T.total, weight |-> T.weight]

\* Encode: a unit struct encodes to no bytes, a u16 to two little-endian bytes
encode(T, self) ==
    IF T.kind = "noop" THEN << >>
    ELSE IF T.kind = "wide"
    THEN << self % 256, (self \div 256) % 256 >> \o [i \in 1..(CursorBound - 1) |-> 0]
    ELSE << self % 256, (self \div 256) % 256 >>

\* Decode: reads the bytes the type needs from the front of the input
decode(T, bytes) ==
    IF T.kind = "noop" THEN [ok |-> TRUE, self |-> 0]
    ELSE IF Len(bytes) < max_encoded_len(T) THEN [ok |-> FALSE, self |-> 0]
    ELSE [ok |-> TRUE, self |-> bytes[1] + 256 * bytes[2]]

\* Vec<u8> -> Cursor (try_into): fails when the bytes exceed the bound
try_into(bytes) == [ok |-> Len(bytes) <= CursorBound, bytes |-> bytes]

\* Option<Cursor>
NoCursor == [exists |-> FALSE, bytes |-> << >>]

Some(bytes) == [exists |-> TRUE, bytes |-> bytes]

----------------------------------------------------------------------------
(* MigrateSequence for tuples of MigrationStep.                            *)

\* const VERSION_RANGE: the fold of for_tuples! over the steps, in order.
\* (0, 0) is the value before the first step; a step that does not follow
\* the last version panics (the constant fails to evaluate).
RECURSIVE VERSION_RANGE_fold(_, _, _)
VERSION_RANGE_fold(Tuple, i, versions) ==
    IF i > Len(Tuple) THEN [panic |-> FALSE, low |-> versions[1], high |-> versions[2]]
    ELSE IF versions = <<0, 0>>
         THEN VERSION_RANGE_fold(Tuple, i + 1, <<Tuple[i].VERSION, Tuple[i].VERSION>>)
    ELSE IF Tuple[i].VERSION = versions[2] + 1
         THEN VERSION_RANGE_fold(Tuple, i + 1, <<versions[1], Tuple[i].VERSION>>)
    ELSE [panic |-> TRUE, low |-> 0, high |-> 0]

VERSION_RANGE(Tuple) == VERSION_RANGE_fold(Tuple, 1, <<0, 0>>)

\* is_upgrade_supported(in_storage, target)
is_upgrade_supported(in_storage, target) ==
    LET range == VERSION_RANGE(Migrations)
    IN  target = range.high /\ in_storage + 1 = range.low

\* for_tuples!( #( if version == Tuple::VERSION { return ... } )* ): the
\* index of the first step of the tuple with that VERSION, 0 when none has
\* (the code then reaches invalid_version(version) and panics)
RECURSIVE find_step(_, _)
find_step(version, i) ==
    IF i > Len(Migrations) THEN 0
    ELSE IF version = Migrations[i].VERSION THEN i
    ELSE find_step(version, i + 1)

\* fn new(version) -> Cursor
new(version) ==
    LET i == find_step(version, 1)
    IN  IF i = 0 THEN [panic |-> TRUE, cursor |-> << >>]
        ELSE LET c == try_into(encode(Migrations[i], default(Migrations[i])))
             IN  [panic |-> ~c.ok, cursor |-> c.bytes]

\* variant: the loop goes on when any component of the weight left exceeds the
\* ceiling (any_gt for all_gt)
loop_condition_any_gt(weight_left, max_weight) == any_gt(weight_left, max_weight)

\* variant: the loop runs while the weight left covers the ceiling (>=)
loop_condition_all_gte(weight_left, max_weight) == all_gte(weight_left, max_weight)

\* the condition of the loop of steps(): weight_left.all_gt(max_weight)
loop_condition(weight_left, max_weight) == all_gt(weight_left, max_weight)

\* variant: the cursor returned encodes a fresh value, not the migration the
\* loop advanced
in_progress_cursor_fresh(T, migration) == try_into(encode(T, default(T)))

\* the cursor of StepResult::InProgress: migration.encode().try_into()
in_progress_cursor(T, migration) == try_into(encode(T, migration))

\* the body of steps() for the matching step type T, from the decoded
\* migration on. `calls` records every step() call: the weight left when it
\* started, the declared max_step_weight and the weight it reported.
\* steps_done stays far below u32::MAX, where saturating_accrue would stop.
\* variant: the call of step() that reports finished is not counted
RECURSIVE steps_loop_uncounted(_, _, _, _, _)
steps_loop_uncounted(T, migration, weight_left, steps_done, calls) ==
    IF loop_condition(weight_left, T.max_step_weight)
    THEN LET r == step(T, migration)
             left == saturating_sub(weight_left, r.weight)
             made == Append(calls, [VERSION |-> T.VERSION,
                                    weight_left |-> weight_left,
                                    max_weight |-> T.max_step_weight,
                                    weight |-> r.weight])
         IN  IF r.finished
             THEN [kind |-> "Completed", panic |-> FALSE, cursor |-> << >>,
                   steps_done |-> steps_done, weight_left |-> left, calls |-> made]
             ELSE steps_loop_uncounted(T, r.self, left, steps_done + 1, made)
    ELSE LET c == in_progress_cursor(T, migration)
         IN  [kind |-> "InProgress", panic |-> ~c.ok, cursor |-> c.bytes,
              steps_done |-> steps_done, weight_left |-> weight_left, calls |-> calls]

RECURSIVE steps_loop(_, _, _, _, _)
steps_loop(T, migration, weight_left, steps_done, calls) ==
    IF loop_condition(weight_left, T.max_step_weight)
    THEN LET r == step(T, migration)
             left == saturating_sub(weight_left, r.weight)
             made == Append(calls, [VERSION |-> T.VERSION,
                                    weight_left |-> weight_left,
                                    max_weight |-> T.max_step_weight,
                                    weight |-> r.weight])
         IN  IF r.finished
             THEN [kind |-> "Completed", panic |-> FALSE, cursor |-> << >>,
                   steps_done |-> steps_done + 1, weight_left |-> left, calls |-> made]
             ELSE steps_loop(T, r.self, left, steps_done + 1, made)
    ELSE LET c == in_progress_cursor(T, migration)
         IN  [kind |-> "InProgress", panic |-> ~c.ok, cursor |-> c.bytes,
              steps_done |-> steps_done, weight_left |-> weight_left, calls |-> calls]

StepsPanic(weight_left) ==
    [kind |-> "Panic", panic |-> TRUE, cursor |-> << >>, steps_done |-> 0,
     weight_left |-> weight_left, calls |-> << >>]

\* fn steps(version, cursor, weight_left) -> StepResult
steps(version, cursor, weight_left) ==
    LET i == find_step(version, 1)
    IN  IF i = 0 THEN StepsPanic(weight_left)                \* invalid_version
        ELSE LET d == decode(Migrations[i], cursor)
             IN  IF ~d.ok THEN StepsPanic(weight_left)       \* expect(PROOF_DECODE)
                 ELSE steps_loop(Migrations[i], d.self, weight_left, 0, << >>)

\* variant: the ceiling is rejected only when it exceeds the block weight in
\* both components
integrity_test_step_all_gt(T, max_block_weight) ==
    all_gt(T.max_step_weight, max_block_weight) \/ max_encoded_len(T) > CursorBound

\* MigrationStep::integrity_test(max_block_weight): TRUE when it panics
integrity_test_step(T, max_block_weight) ==
    any_gt(T.max_step_weight, max_block_weight) \/ max_encoded_len(T) > CursorBound

\* MigrateSequence::integrity_test(max_block_weight) for tuples: the test of
\* each step in order; `at` is the index of the step whose test panicked
RECURSIVE integrity_test_fold(_, _, _)
integrity_test_fold(Tuple, i, max_block_weight) ==
    IF i > Len(Tuple) THEN [panic |-> FALSE, at |-> 0]
    ELSE IF integrity_test_step(Tuple[i], max_block_weight)
    THEN [panic |-> TRUE, at |-> i]
    ELSE integrity_test_fold(Tuple, i + 1, max_block_weight)

integrity_test(Tuple, max_block_weight) == integrity_test_fold(Tuple, 1, max_block_weight)

----------------------------------------------------------------------------
(* The generated Migration<T>: the orchestrator over the two storage items *)
(* st = [version |-> on-chain StorageVersion, cursor |-> MigrationInProgress]. *)

Storage == [version |-> on_chain_storage_version, cursor |-> MigrationInProgress]

\* fn in_progress() -> bool: MigrationInProgress::exists()
in_progress(st) == st.cursor.exists

\* variant: the error is returned when no migration is in progress
ensure_migrated_inverted(st) == IF in_progress(st) THEN "Ok" ELSE "Err"

\* fn ensure_migrated() -> DispatchResult
ensure_migrated(st) == IF in_progress(st) THEN "Err" ELSE "Ok"

\* variant: the test against the target version is inverted (== for !=)
completed_inverted(st, in_progress_version, steps_done) ==
    IF current_storage_version = in_progress_version
    THEN LET next == new(in_progress_version + 1)
         IN  IF next.panic
             THEN [result |-> "Panic", steps_done |-> steps_done,
                   st |-> [st EXCEPT !.version = in_progress_version]]
             ELSE [result |-> "InProgress", steps_done |-> steps_done,
                   st |-> [version |-> in_progress_version, cursor |-> Some(next.cursor)]]
    ELSE [result |-> "Completed", steps_done |-> steps_done,
          st |-> [version |-> in_progress_version, cursor |-> NoCursor]]

\* variant: the version is not put when the target version finishes
completed_without_put(st, in_progress_version, steps_done) ==
    IF current_storage_version # in_progress_version
    THEN LET next == new(in_progress_version + 1)
         IN  IF next.panic
             THEN [result |-> "Panic", steps_done |-> steps_done,
                   st |-> [st EXCEPT !.version = in_progress_version]]
             ELSE [result |-> "InProgress", steps_done |-> steps_done,
                   st |-> [version |-> in_progress_version, cursor |-> Some(next.cursor)]]
    ELSE [result |-> "Completed", steps_done |-> steps_done,
          st |-> [st EXCEPT !.cursor = NoCursor]]

\* variant: the cursor is not cleared when the target version finishes
completed_leaves_cursor(st, in_progress_version, steps_done) ==
    IF current_storage_version # in_progress_version
    THEN LET next == new(in_progress_version + 1)
         IN  IF next.panic
             THEN [result |-> "Panic", steps_done |-> steps_done,
                   st |-> [st EXCEPT !.version = in_progress_version]]
             ELSE [result |-> "InProgress", steps_done |-> steps_done,
                   st |-> [version |-> in_progress_version, cursor |-> Some(next.cursor)]]
    ELSE [result |-> "Completed", steps_done |-> steps_done,
          st |-> [st EXCEPT !.version = in_progress_version]]

\* variant: the cursor written for the next version is that of the version
\* that has just finished
completed_same_step(st, in_progress_version, steps_done) ==
    IF current_storage_version # in_progress_version
    THEN LET next == new(in_progress_version)
         IN  IF next.panic
             THEN [result |-> "Panic", steps_done |-> steps_done,
                   st |-> [st EXCEPT !.version = in_progress_version]]
             ELSE [result |-> "InProgress", steps_done |-> steps_done,
                   st |-> [version |-> in_progress_version, cursor |-> Some(next.cursor)]]
    ELSE [result |-> "Completed", steps_done |-> steps_done,
          st |-> [version |-> in_progress_version, cursor |-> NoCursor]]

\* variant: the version put is the target version, not in_progress_version
completed_puts_target(st, in_progress_version, steps_done) ==
    IF current_storage_version # in_progress_version
    THEN LET next == new(in_progress_version + 1)
         IN  IF next.panic
             THEN [result |-> "Panic", steps_done |-> steps_done,
                   st |-> [st EXCEPT !.version = current_storage_version]]
             ELSE [result |-> "InProgress", steps_done |-> steps_done,
                   st |-> [version |-> current_storage_version,
                           cursor |-> Some(next.cursor)]]
    ELSE [result |-> "Completed", steps_done |-> steps_done,
          st |-> [version |-> current_storage_version, cursor |-> NoCursor]]

\* what migrate() does with a finished step: put the version, then either
\* the cursor of the next step or no cursor
completed(st, in_progress_version, steps_done) ==
    IF current_storage_version # in_progress_version
    THEN LET next == new(in_progress_version + 1)
         IN  IF next.panic
             \* the version is put; the closure of mutate_exists never returns
             THEN [result |-> "Panic", steps_done |-> steps_done,
                   st |-> [st EXCEPT !.version = in_progress_version]]
             ELSE [result |-> "InProgress", steps_done |-> steps_done,
                   st |-> [version |-> in_progress_version, cursor |-> Some(next.cursor)]]
    ELSE [result |-> "Completed", steps_done |-> steps_done,
          st |-> [version |-> in_progress_version, cursor |-> NoCursor]]

\* variant: a call that finds no cursor starts the migration itself when the
\* on-chain version is not the target version
migrate_starts_when_idle(weight_limit, st) ==
    LET reduced == checked_reduce(weight_limit, migrate_weight)
    IN  IF ~reduced.is_some
        THEN [result |-> "NoMigrationPerformed", steps_done |-> 0, weight |-> zero,
              st |-> st, calls |-> << >>]
        ELSE IF ~st.cursor.exists /\ st.version = current_storage_version
        THEN [result |-> "NoMigrationInProgress", steps_done |-> 0,
              weight |-> migration_noop_weight, st |-> st, calls |-> << >>]
        ELSE IF ~st.cursor.exists
        THEN The({ IF c.panic
                   THEN [result |-> "Panic", steps_done |-> 0, weight |-> zero,
                         st |-> st, calls |-> << >>]
                   ELSE [result |-> "InProgress", steps_done |-> 0,
                         weight |-> migrate_weight,
                         st |-> [st EXCEPT !.cursor = Some(c.cursor)], calls |-> << >>]
                   : c \in { new(st.version + 1) } })
        ELSE The({
             LET in_progress_version == st.version + 1
                 spent == saturating_sub(weight_limit, r.weight_left)
             IN  IF r.panic
                 THEN [result |-> "Panic", steps_done |-> r.steps_done, weight |-> zero,
                       st |-> st, calls |-> r.calls]
                 ELSE IF r.kind = "InProgress"
                 THEN [result |-> "InProgress", steps_done |-> r.steps_done,
                       weight |-> spent,
                       st |-> [st EXCEPT !.cursor = Some(r.cursor)], calls |-> r.calls]
                 ELSE LET c == completed(st, in_progress_version, r.steps_done)
                      IN  [result |-> c.result, steps_done |-> c.steps_done,
                           weight |-> IF c.result = "Panic" THEN zero ELSE spent,
                           st |-> c.st, calls |-> r.calls]
             : r \in { steps(st.version + 1, st.cursor.bytes, reduced.value) } })

\* fn migrate(weight_limit) -> (MigrateResult, Weight)
\* result, steps_done: the MigrateResult; weight: the weight returned;
\* st: the storage afterwards; calls: the step() calls made
migrate(weight_limit, st) ==
    LET reduced == checked_reduce(weight_limit, migrate_weight)
    IN  IF ~reduced.is_some
        THEN [result |-> "NoMigrationPerformed", steps_done |-> 0, weight |-> zero,
              st |-> st, calls |-> << >>]
        ELSE IF ~st.cursor.exists
        THEN [result |-> "NoMigrationInProgress", steps_done |-> 0,
              weight |-> migration_noop_weight, st |-> st, calls |-> << >>]
        ELSE The({
             LET in_progress_version == st.version + 1
                 spent == saturating_sub(weight_limit, r.weight_left)
             IN  IF r.panic
                 THEN [result |-> "Panic", steps_done |-> r.steps_done, weight |-> zero,
                       st |-> st, calls |-> r.calls]
                 ELSE IF r.kind = "InProgress"
                 THEN [result |-> "InProgress", steps_done |-> r.steps_done,
                       weight |-> spent,
                       st |-> [st EXCEPT !.cursor = Some(r.cursor)], calls |-> r.calls]
                 ELSE LET c == completed(st, in_progress_version, r.steps_done)
                      IN  [result |-> c.result, steps_done |-> c.steps_done,
                           weight |-> IF c.result = "Panic" THEN zero ELSE spent,
                           st |-> c.st, calls |-> r.calls]
             : r \in { steps(st.version + 1, st.cursor.bytes, reduced.value) } })

\* variant: a version pair is_upgrade_supported rejects is turned down before
\* the cursor is written
on_runtime_upgrade_tests_support(st) ==
    IF st.version = current_storage_version
    THEN [outcome |-> "noop", weight |-> on_runtime_upgrade_noop_weight, st |-> st]
    ELSE IF in_progress(st)
    THEN [outcome |-> "in_progress", weight |-> on_runtime_upgrade_in_progress_weight,
          st |-> st]
    ELSE IF ~is_upgrade_supported(st.version, current_storage_version)
    THEN [outcome |-> "unsupported", weight |-> zero, st |-> st]
    ELSE LET cursor == new(st.version + 1)
         IN  IF cursor.panic
             THEN [outcome |-> "Panic", weight |-> zero, st |-> st]
             ELSE [outcome |-> "upgrade", weight |-> on_runtime_upgrade_weight,
                   st |-> [st EXCEPT !.cursor = Some(cursor.cursor)]]

\* variant: no test for a migration in progress before the cursor is written
on_runtime_upgrade_no_in_progress_test(st) ==
    IF st.version = current_storage_version
    THEN [outcome |-> "noop", weight |-> on_runtime_upgrade_noop_weight, st |-> st]
    ELSE LET cursor == new(st.version + 1)
         IN  IF cursor.panic
             THEN [outcome |-> "Panic", weight |-> zero, st |-> st]
             ELSE [outcome |-> "upgrade", weight |-> on_runtime_upgrade_weight,
                   st |-> [st EXCEPT !.cursor = Some(cursor.cursor)]]

\* variant: the cursor written is that of the step of the on-chain version
on_runtime_upgrade_new_of_stored(st) ==
    IF st.version = current_storage_version
    THEN [outcome |-> "noop", weight |-> on_runtime_upgrade_noop_weight, st |-> st]
    ELSE IF in_progress(st)
    THEN [outcome |-> "in_progress", weight |-> on_runtime_upgrade_in_progress_weight,
          st |-> st]
    ELSE LET cursor == new(st.version)
         IN  IF cursor.panic
             THEN [outcome |-> "Panic", weight |-> zero, st |-> st]
             ELSE [outcome |-> "upgrade", weight |-> on_runtime_upgrade_weight,
                   st |-> [st EXCEPT !.cursor = Some(cursor.cursor)]]

\* variant: no comparison of the on-chain version with the target version
on_runtime_upgrade_no_version_test(st) ==
    IF in_progress(st)
    THEN [outcome |-> "in_progress", weight |-> on_runtime_upgrade_in_progress_weight,
          st |-> st]
    ELSE LET cursor == new(st.version + 1)
         IN  IF cursor.panic
             THEN [outcome |-> "Panic", weight |-> zero, st |-> st]
             ELSE [outcome |-> "upgrade", weight |-> on_runtime_upgrade_weight,
                   st |-> [st EXCEPT !.cursor = Some(cursor.cursor)]]

\* fn on_runtime_upgrade() -> Weight (a build without try-runtime)
on_runtime_upgrade(st) ==
    IF st.version = current_storage_version
    THEN [outcome |-> "noop", weight |-> on_runtime_upgrade_noop_weight, st |-> st]
    ELSE IF in_progress(st)
    THEN [outcome |-> "in_progress", weight |-> on_runtime_upgrade_in_progress_weight,
          st |-> st]
    ELSE LET cursor == new(st.version + 1)
         IN  IF cursor.panic
             THEN [outcome |-> "Panic", weight |-> zero, st |-> st]
             ELSE [outcome |-> "upgrade", weight |-> on_runtime_upgrade_weight,
                   st |-> [st EXCEPT !.cursor = Some(cursor.cursor)]]

\* Weight::MAX.  The source's value is u64::MAX in both components; the
\* model takes the largest integer TLC represents, far above every weight
\* of the model, and only ever subtracts from it.
MAX == from_parts(2147483647, 2147483647)

\* variant: run_all_steps gives migrate the weight of a block, not Weight::MAX
run_all_steps_limit_block == saturating_add(migrate_weight, from_parts(11, 5))

\* the weight limit run_all_steps passes to migrate
run_all_steps_limit == MAX

\* MigrateSequence::pre_upgrade_step(version) and post_upgrade_step(version,
\* state) for tuples: the hook of the step with that VERSION (the default
\* implementations, which return Ok), invalid_version when no step has it
upgrade_step_hook(version) ==
    IF find_step(version, 1) = 0 THEN [panic |-> TRUE, called |-> << >>]
    ELSE [panic |-> FALSE, called |-> << version >>]

\* one round of the loop of run_all_steps as the histories record it: the
\* migrate call, the version pre_upgrade_step was called with before it and
\* the version post_upgrade_step was called with after it (none: << >>)
Round(weight_limit, st, r, pre, post) ==
    [weight_limit |-> weight_limit, before |-> st, result |-> r.result,
     steps_done |-> r.steps_done, weight |-> r.weight, after |-> r.st,
     calls |-> r.calls, pre_upgrade_step |-> pre, post_upgrade_step |-> post]

\* fn run_all_steps() -> Result<(), TryRuntimeError> (try-runtime builds)
RECURSIVE run_all_steps(_, _)
run_all_steps(st, trace) ==
    The({
    IF pre.panic
    THEN [exit |-> "Panic", st |-> st, trace |-> trace]
    ELSE The({
         IF r.result = "Panic"
         THEN [exit |-> "Panic", st |-> r.st,
               trace |-> Append(trace, Round(run_all_steps_limit, st, r,
                                             pre.called, << >>))]
         ELSE The({
              IF post.panic
              THEN [exit |-> "Panic", st |-> r.st,
                    trace |-> Append(trace, Round(run_all_steps_limit, st, r,
                                                  pre.called, << >>))]
              ELSE IF r.result = "Completed"
              THEN [exit |-> "Ok", st |-> r.st,
                    trace |-> Append(trace, Round(run_all_steps_limit, st, r,
                                                  pre.called, post.called))]
              ELSE run_all_steps(r.st,
                                 Append(trace, Round(run_all_steps_limit, st, r,
                                                     pre.called, post.called)))
              : post \in { upgrade_step_hook(st.version + 1) } })
         : r \in { migrate(run_all_steps_limit, st) } })
    : pre \in { upgrade_step_hook(st.version + 1) } })

\* fn on_runtime_upgrade() -> Weight of Migration<T, true> in a build with
\* try-runtime: run_all_steps().unwrap() follows the write of the cursor
on_runtime_upgrade_test_all_steps(st) ==
    IF st.version = current_storage_version
    THEN [outcome |-> "noop", weight |-> on_runtime_upgrade_noop_weight, st |-> st,
          trace |-> << >>]
    ELSE IF in_progress(st)
    THEN [outcome |-> "in_progress", weight |-> on_runtime_upgrade_in_progress_weight,
          st |-> st, trace |-> << >>]
    ELSE LET cursor == new(st.version + 1)
         IN  IF cursor.panic
             THEN [outcome |-> "Panic", weight |-> zero, st |-> st, trace |-> << >>]
             ELSE The({ [outcome |-> IF r.exit = "Ok" THEN "upgrade" ELSE "Panic",
                         weight |-> IF r.exit = "Ok" THEN on_runtime_upgrade_weight
                                    ELSE zero,
                         st |-> r.st, trace |-> r.trace]
                        : r \in { run_all_steps([st EXCEPT !.cursor = Some(cursor.cursor)],
                                                << >>) } })

\* one call of migrate as the histories record it
MigrateCall(weight_limit, st, r) ==
    [weight_limit |-> weight_limit, before |-> st, result |-> r.result,
     steps_done |-> r.steps_done, weight |-> r.weight, after |-> r.st,
     calls |-> r.calls]

\* variant: every InProgress result continues the loop, steps_done: 0 too
drain_arm_any_in_progress(result, steps_done) ==
    IF result = "NoMigrationPerformed" THEN "return"
    ELSE IF result = "InProgress" THEN "continue"
    ELSE "break"

\* the arm of the match of the drain loop taken for a MigrateResult
drain_arm(result, steps_done) ==
    IF result = "NoMigrationPerformed" \/ (result = "InProgress" /\ steps_done = 0)
    THEN "return"
    ELSE IF result = "InProgress" THEN "continue"
    ELSE "break"

\* variant: the weight a migrate call returned is not taken off the weight
\* the next call is given
RECURSIVE drain_keeps_weight(_, _, _)
drain_keeps_weight(remaining_weight, st, trace) ==
    The({
    LET made == Append(trace, MigrateCall(remaining_weight, st, r))
        arm == drain_arm(r.result, r.steps_done)
    IN  IF r.result = "Panic"
        THEN [exit |-> "Panic", remaining_weight |-> remaining_weight, st |-> r.st,
              trace |-> made]
        ELSE IF arm = "continue"
        THEN The({ drain_keeps_weight(remaining_weight, next.st, next.made) :
                   next \in { [st |-> r.st, made |-> made] } })
        ELSE [exit |-> arm, remaining_weight |-> remaining_weight, st |-> r.st,
              trace |-> made]
    : r \in { migrate(remaining_weight, st) } })

\* the loop the hooks macro puts in front of the body of on_idle
RECURSIVE drain(_, _, _)
drain(remaining_weight, st, trace) ==
    The({
    LET left == saturating_sub(remaining_weight, r.weight)
        made == Append(trace, MigrateCall(remaining_weight, st, r))
        arm == drain_arm(r.result, r.steps_done)
    IN  IF r.result = "Panic"
        THEN [exit |-> "Panic", remaining_weight |-> left, st |-> r.st, trace |-> made]
        ELSE IF arm = "continue"
        THEN The({ drain(next.left, next.st, next.made) :
                   next \in { [left |-> left, st |-> r.st, made |-> made] } })
        ELSE [exit |-> arm, remaining_weight |-> left, st |-> r.st, trace |-> made]
    : r \in { migrate(remaining_weight, st) } })

\* fn on_idle(_block, remaining_weight) -> Weight as the hooks macro rewrites
\* it; `body` is the weight the pallet's own hook body evaluates to.
\*   "return": `return remaining_weight` leaves on_idle from inside the loop
\*   "break" : migration_weight = weight_sum - remaining_weight, the body
\*             runs, weight.saturating_add(migration_weight) is evaluated and
\*             dropped, and `weight` is returned
on_idle(remaining_weight, body, st) ==
    The({ [exit |-> d.exit, st |-> d.st, trace |-> d.trace,
           body_ran |-> d.exit = "break",
           migration_weight |-> saturating_sub(remaining_weight, d.remaining_weight),
           weight |-> IF d.exit = "return" THEN d.remaining_weight
                      ELSE IF d.exit = "break" THEN body
                      ELSE zero]
          : d \in { drain(remaining_weight, st, << >>) } })

----------------------------------------------------------------------------
(* The runtime: a pallet configured with a tuple VERSION_RANGE accepts,    *)
(* called by the host through on_runtime_upgrade, migrate and on_idle.     *)

Tuples == UNION { [1..n -> StepTypes] : n \in 1..MaxTuple }

ValidTuples == { Tuple \in Tuples : ~VERSION_RANGE(Tuple).panic }

plus(d) == saturating_add(migrate_weight, d)

\* the weight limits the host passes to migrate: below the weight of the
\* call itself in one component or both, and that weight plus a remainder
WeightLimits ==
    { from_parts(migrate_weight.ref_time - 1, migrate_weight.proof_size + 20),
      from_parts(migrate_weight.ref_time + 20, migrate_weight.proof_size - 1) }
    \cup { plus(from_parts(0, 0)), plus(from_parts(10, 4)), plus(from_parts(11, 5)),
           plus(from_parts(12, 0)), plus(from_parts(25, 12)) }

\* the weights left in a block when the host calls on_idle
IdleWeights ==
    { from_parts(migrate_weight.ref_time - 1, migrate_weight.proof_size + 20),
      plus(from_parts(11, 5)),
      plus(plus(from_parts(25, 12))),
      plus(plus(plus(from_parts(40, 20)))) }

\* the weights the pallet's own on_idle body may evaluate to
BodyWeights == { zero, from_parts(5, 1) }

\* step() calls with VERSION v among the migrate calls of a trace
CallsOf(trace, v) ==
    Cardinality({ p \in UNION { { <<i, j>> : j \in 1..Len(trace[i].calls) } :
                                i \in 1..Len(trace) } :
                  trace[p[1]].calls[p[2]].VERSION = v })

Record(op, arg, before, trace, outcome, weight, body_ran) ==
    [op |-> op, arg |-> arg, before |-> before, trace |-> trace,
     outcome |-> outcome, weight |-> weight, body_ran |-> body_ran]

Init ==
    /\ Migrations \in ValidTuples
    /\ current_storage_version \in 0..MaxVersion
    /\ on_chain_storage_version \in 0..MaxVersion
    /\ MigrationInProgress = NoCursor
    /\ panicked = FALSE
    /\ last = Record("init", zero, Storage, << >>, "none", zero, FALSE)
    /\ stepCalls = [v \in 0..MaxVersion |-> 0]
    /\ upgrade = [started |-> FALSE, supported |-> FALSE, from |-> 0, completed |-> FALSE]

\* what every call leaves: the storage, the panic flag and the histories
Leaves(st, made) ==
  \E record \in { made } :
    /\ on_chain_storage_version' = st.version
    /\ MigrationInProgress' = st.cursor
    /\ panicked' = (record.outcome = "Panic")
    /\ last' = record
    /\ stepCalls' = [v \in 0..MaxVersion |-> stepCalls[v] + CallsOf(record.trace, v)]
    /\ UNCHANGED <<Migrations, current_storage_version>>

OnRuntimeUpgrade ==
    /\ ~panicked
    /\ \E r \in { on_runtime_upgrade(Storage) } :
           /\ Leaves(r.st, Record("on_runtime_upgrade", zero, Storage, << >>,
                                  r.outcome, r.weight, FALSE))
           /\ upgrade' = IF r.outcome = "upgrade"
                         THEN [started |-> TRUE,
                               supported |-> is_upgrade_supported(on_chain_storage_version,
                                                                  current_storage_version),
                               from |-> on_chain_storage_version,
                               completed |-> FALSE]
                         ELSE upgrade

Migrate ==
    /\ ~panicked
    /\ \E weight_limit \in WeightLimits :
         \E r \in { migrate(weight_limit, Storage) } :
             Leaves(r.st, Record("migrate", weight_limit, Storage,
                                 << MigrateCall(weight_limit, Storage, r) >>,
                                 r.result, r.weight, FALSE))
             /\ upgrade' = [upgrade EXCEPT
                               !.completed = @ \/ r.result = "Completed"]

OnIdle ==
    /\ ~panicked
    /\ \E remaining_weight \in IdleWeights, body \in BodyWeights :
         \E r \in { on_idle(remaining_weight, body, Storage) } :
             Leaves(r.st, Record("on_idle", remaining_weight, Storage, r.trace,
                                 r.exit, r.weight, r.body_ran))
             /\ upgrade' = [upgrade EXCEPT
                               !.completed = @ \/ \E i \in 1..Len(r.trace) :
                                                    r.trace[i].result = "Completed"]

\* on_runtime_upgrade of Migration<T, true> in a build with try-runtime
OnRuntimeUpgradeTestAllSteps ==
    /\ ~panicked
    /\ \E r \in { on_runtime_upgrade_test_all_steps(Storage) } :
           /\ Leaves(r.st, Record("on_runtime_upgrade_test_all_steps", zero, Storage,
                                  r.trace, r.outcome, r.weight, FALSE))
           /\ upgrade' = IF r.st # Storage
                         THEN [started |-> TRUE,
                               supported |-> is_upgrade_supported(on_chain_storage_version,
                                                                  current_storage_version),
                               from |-> on_chain_storage_version,
                               completed |-> \E i \in 1..Len(r.trace) :
                                                r.trace[i].result = "Completed"]
                         ELSE upgrade

\* a caller asks Migration::<T>::in_progress(); the histories record the
\* bool returned as "true" or "false"
InProgress ==
    /\ ~panicked
    /\ last' = Record("in_progress", zero, Storage, << >>,
                      IF in_progress(Storage) THEN "true" ELSE "false", zero, FALSE)
    /\ UNCHANGED <<Migrations, current_storage_version, on_chain_storage_version,
                   MigrationInProgress, panicked, stepCalls, upgrade>>

\* a caller asks Migration::<T>::ensure_migrated()
EnsureMigrated ==
    /\ ~panicked
    /\ last' = Record("ensure_migrated", zero, Storage, << >>,
                      ensure_migrated(Storage), zero, FALSE)
    /\ UNCHANGED <<Migrations, current_storage_version, on_chain_storage_version,
                   MigrationInProgress, panicked, stepCalls, upgrade>>

Next ==
    \/ OnRuntimeUpgrade
    \/ OnRuntimeUpgradeTestAllSteps
    \/ Migrate
    \/ OnIdle
    \/ InProgress
    \/ EnsureMigrated

Spec == Init /\ [][Next]_vars

----------------------------------------------------------------------------
(* The definition of a tuple of migrations, step by step: what             *)
(* VERSION_RANGE evaluates to for every tuple of at most MaxTuple steps.   *)

SeqInit ==
    /\ Migrations = << >>
    /\ current_storage_version = 0
    /\ on_chain_storage_version = 0
    /\ MigrationInProgress = NoCursor
    /\ panicked = FALSE
    /\ last = Record("init", zero, Storage, << >>, VERSION_RANGE(<< >>), zero, FALSE)
    /\ stepCalls = [v \in 0..MaxVersion |-> 0]
    /\ upgrade = [started |-> FALSE, supported |-> FALSE, from |-> 0, completed |-> FALSE]

Define ==
    /\ Len(Migrations) < MaxTuple
    /\ \E T \in AnyStepTypes :
         /\ Migrations' = Append(Migrations, T)
         /\ last' = Record("VERSION_RANGE", zero, Storage, << >>,
                           VERSION_RANGE(Append(Migrations, T)), zero, FALSE)
    /\ UNCHANGED <<current_storage_version, on_chain_storage_version,
                   MigrationInProgress, panicked, stepCalls, upgrade>>

\* MigrateSequence::new(version) of the tuple defined so far, for a tuple
\* VERSION_RANGE accepts
New ==
    /\ Migrations # << >>
    /\ ~VERSION_RANGE(Migrations).panic
    /\ \E version \in 0..(MaxVersion + 1) :
         last' = Record("new", version, Storage, << >>, new(version), zero, FALSE)
    /\ UNCHANGED <<Migrations, current_storage_version, on_chain_storage_version,
                   MigrationInProgress, panicked, stepCalls, upgrade>>

\* BlockWeights::get().max_block of the runtimes the tuple is tested in
MaxBlockWeights ==
    { zero, from_parts(10, 4), from_parts(9, 100), from_parts(100, 3), from_parts(100, 100) }

\* Migration::integrity_test() of the tuple defined so far
IntegrityTest ==
    /\ Migrations # << >>
    /\ ~VERSION_RANGE(Migrations).panic
    /\ \E max_block_weight \in MaxBlockWeights :
         last' = Record("integrity_test", max_block_weight, Storage, << >>,
                        integrity_test(Migrations, max_block_weight), zero, FALSE)
    /\ UNCHANGED <<Migrations, current_storage_version, on_chain_storage_version,
                   MigrationInProgress, panicked, stepCalls, upgrade>>

\* the weights left that steps() is given
StepsWeights == { zero, from_parts(11, 5), from_parts(25, 12) }

\* MigrateSequence::steps(version, cursor, weight_left) of the tuple defined
\* so far, on the cursor new(version) wrote
Steps ==
    /\ Migrations # << >>
    /\ ~VERSION_RANGE(Migrations).panic
    /\ \E version \in 0..MaxVersion, weight_left \in StepsWeights :
         /\ ~new(version).panic
         /\ last' = Record("steps", version, Storage, << >>,
                           steps(version, new(version).cursor, weight_left), zero, FALSE)
    /\ UNCHANGED <<Migrations, current_storage_version, on_chain_storage_version,
                   MigrationInProgress, panicked, stepCalls, upgrade>>

SeqNext == Define \/ New \/ IntegrityTest \/ Steps

SeqSpec == SeqInit /\ [][SeqNext]_vars

----------------------------------------------------------------------------
(* The runtime after a supported upgrade request, with the host calling    *)
(* migrate again and again (on_idle runs in every block).                  *)

LiveInit ==
    /\ Init
    /\ is_upgrade_supported(on_chain_storage_version, current_storage_version)

LiveSpec == LiveInit /\ [][Next]_vars /\ WF_vars(Migrate)

----------------------------------------------------------------------------
(* Properties.  `last.trace` holds the migrate calls of the last call of   *)
(* the host, each with the step() calls it made.                           *)

MigrateCalls == { last.trace[i] : i \in 1..Len(last.trace) }

StepCalls == UNION { { m.calls[j] : j \in 1..Len(m.calls) } : m \in MigrateCalls }

RECURSIVE SumWeights(_)
SumWeights(calls) ==
    IF calls = << >> THEN zero
    ELSE saturating_add(calls[1].weight, SumWeights(Tail(calls)))

\* the last call of the host ended with migrate returning Completed
ReturnedCompleted ==
    /\ last.op \in {"migrate", "on_idle"}
    /\ Len(last.trace) > 0
    /\ last.trace[Len(last.trace)].result = "Completed"

\* C1: no step() call starts when the declared max_step_weight of its step
\* exceeds, in any component, the weight left at that moment.
C1_NoCallAboveWeightLeft ==
    \A c \in StepCalls : ~any_gt(c.max_weight, c.weight_left)

\* a step() call was made with one unit more than the ceiling left
C1_Witness ==
    \E c \in StepCalls :
        /\ c.max_weight # zero
        /\ c.weight_left.ref_time = c.max_weight.ref_time + 1
        /\ c.weight_left.proof_size = c.max_weight.proof_size + 1

\* C2: the weight migrate returns never exceeds the weight limit it was
\* given, whatever the outcome; and when it ran steps() (InProgress or
\* Completed) and every step() call reported at most its declared
\* max_step_weight, the weight returned is the weight of the migrate call
\* itself plus the sum of the weights the step() calls reported.
C2_WeightWithinLimit ==
    \A m \in MigrateCalls :
        /\ m.result # "Panic" => all_gte(m.weight_limit, m.weight)
        /\ ( /\ m.result \in {"InProgress", "Completed"}
             /\ \A j \in 1..Len(m.calls) :
                    ~any_gt(m.calls[j].weight, m.calls[j].max_weight) )
           => m.weight = saturating_add(migrate_weight, SumWeights(m.calls))

\* a migrate call that made two step() calls within their ceiling and
\* returned Completed
C2_Witness ==
    \E m \in MigrateCalls :
        /\ m.result = "Completed"
        /\ Len(m.calls) >= 2
        /\ \A j \in 1..Len(m.calls) : ~any_gt(m.calls[j].weight, m.calls[j].max_weight)
        /\ m.calls[1].weight # zero

\* step() calls the step of VERSION v makes until it reports finished when
\* the weight never runs out
RECURSIVE RunToFinish(_, _, _)
RunToFinish(T, self, n) ==
    LET r == step(T, self)
    IN  IF r.finished THEN n + 1 ELSE RunToFinish(T, r.self, n + 1)

UnlimitedCalls(v) ==
    LET T == Migrations[find_step(v, 1)]
    IN  RunToFinish(T, default(T), 0)

\* C3: when migrate returns Completed, whatever weight limits the calls
\* before it were given, every version migrated has had exactly the step()
\* calls a run with unlimited weight makes for it, and no other version any.
C3_SameCallsAsUnlimited ==
    ReturnedCompleted =>
        \A v \in 0..MaxVersion :
            stepCalls[v] = IF upgrade.from < v /\ v <= on_chain_storage_version
                           THEN UnlimitedCalls(v) ELSE 0

\* Completed after the last version was suspended and resumed: the final
\* migrate call made only part of the step() calls of that version
C3_Witness ==
    /\ ReturnedCompleted
    /\ last.op = "migrate"
    /\ upgrade.from + 2 <= on_chain_storage_version
    /\ CallsOf(last.trace, on_chain_storage_version) >= 1
    /\ CallsOf(last.trace, on_chain_storage_version) < stepCalls[on_chain_storage_version]

\* C4: on_runtime_upgrade called while a migration is in progress and the
\* stored version differs from the target leaves the cursor and the stored
\* version as they were.
C4_SingleFlight ==
    ( /\ last.op = "on_runtime_upgrade"
      /\ last.before.cursor.exists
      /\ last.before.version # current_storage_version )
    => /\ Storage = last.before
       /\ last.outcome = "in_progress"

\* on_runtime_upgrade was called with a cursor that holds progress
C4_Witness ==
    /\ last.op = "on_runtime_upgrade"
    /\ last.before.cursor.exists
    /\ last.before.version # current_storage_version
    /\ last.before.cursor.bytes = <<1, 0>>
    /\ MigrationInProgress = Some(<<1, 0>>)

\* some step of the tuple has VERSION = version
HasStep(version) == \E i \in 1..Len(Migrations) : Migrations[i].VERSION = version

\* C5 as stated: on_runtime_upgrade on an idle store, for a version pair
\* with current # target that is_upgrade_supported rejects, leaves the
\* cursor absent and the stored version unchanged.
C5_Original ==
    ( /\ last.op = "on_runtime_upgrade"
      /\ ~last.before.cursor.exists
      /\ last.before.version # current_storage_version
      /\ ~is_upgrade_supported(last.before.version, current_storage_version) )
    => Storage = last.before

\* C5 amended: on_runtime_upgrade on an idle store with current # target
\* writes a cursor, and leaves the stored version, whenever the tuple has a
\* step for current + 1, whether is_upgrade_supported accepts the pair or
\* not; when no step has that version it panics with the cursor still
\* absent and the stored version unchanged.
C5_StartsWheneverStepExists ==
    ( /\ last.op = "on_runtime_upgrade"
      /\ ~last.before.cursor.exists
      /\ last.before.version # current_storage_version )
    => IF HasStep(last.before.version + 1)
       THEN /\ ~panicked
            /\ MigrationInProgress.exists
            /\ on_chain_storage_version = last.before.version
       ELSE /\ panicked
            /\ Storage = last.before

\* a migration was started for a pair is_upgrade_supported rejects
C5_Witness ==
    /\ last.op = "on_runtime_upgrade"
    /\ last.outcome = "upgrade"
    /\ ~last.before.cursor.exists
    /\ MigrationInProgress.exists
    /\ ~is_upgrade_supported(last.before.version, current_storage_version)

\* C6 as stated: VERSION_RANGE fails for every tuple in which some adjacent
\* pair of steps is not (version, version + 1).
C6_Original ==
    ( /\ last.op = "VERSION_RANGE"
      /\ \E i \in 1..(Len(Migrations) - 1) :
             Migrations[i + 1].VERSION # Migrations[i].VERSION + 1 )
    => last.outcome.panic

\* C7: migrate with a weight limit below the weight of the migrate call in
\* any component returns NoMigrationPerformed and zero weight, calls no
\* step() and leaves the cursor and the stored version as they were.
C7_BelowMinimumIsNoOp ==
    \A m \in MigrateCalls :
        ~all_gte(m.weight_limit, migrate_weight)
        => /\ m.result = "NoMigrationPerformed"
           /\ m.weight = zero
           /\ m.calls = << >>
           /\ m.after = m.before

\* migrate was called during a migration with a limit that lacks proof_size
\* only
C7_Witness ==
    /\ last.op = "migrate"
    /\ last.before.cursor.exists
    /\ last.arg.ref_time > migrate_weight.ref_time
    /\ last.arg.proof_size < migrate_weight.proof_size
    /\ last.outcome = "NoMigrationPerformed"
    /\ MigrationInProgress.exists

\* C8: a migrate call that returns InProgress{steps_done: 0} made no step()
\* call and left the cursor and the stored version as they were, and it is
\* the last migrate call of the on_idle that made it.
C8_ZeroProgressHalts ==
    \A i \in 1..Len(last.trace) :
        (last.trace[i].result = "InProgress" /\ last.trace[i].steps_done = 0)
        => /\ last.trace[i].calls = << >>
           /\ last.trace[i].after = last.trace[i].before
           /\ i = Len(last.trace)

\* on_idle stopped at InProgress{steps_done: 0}: its first migrate call
\* finished a version, the second could not pay for a call of the next step
C8_Witness ==
    /\ last.op = "on_idle"
    /\ Len(last.trace) = 2
    /\ last.trace[2].result = "InProgress"
    /\ last.trace[2].steps_done = 0
    /\ last.trace[1].steps_done >= 1
    /\ on_chain_storage_version = last.before.version + 1
    /\ MigrationInProgress = Some(<<0, 0>>)

\* a supported migration is in progress
InFlight ==
    upgrade.started /\ upgrade.supported /\ MigrationInProgress.exists

\* migrate has just returned Completed: the target is stored, no cursor
Done ==
    /\ ReturnedCompleted
    /\ on_chain_storage_version = current_storage_version
    /\ ~MigrationInProgress.exists

\* the step a migrate call from storage st runs
CurrentStep(st) == Migrations[find_step(st.version + 1, 1)]

\* the weight of the migrate call plus one call of the current step
OneCall(m) == saturating_add(migrate_weight, CurrentStep(m.before).max_step_weight)

\* C9 as stated: during a supported migration, migrate calls eventually
\* return Completed (target stored, cursor cleared) unless some call is
\* given a limit that does not cover the weight of the call plus one call of
\* the current step.
C9_Original ==
    InFlight ~> ( Done \/ \E m \in MigrateCalls :
                              m.before.cursor.exists /\ ~all_gte(m.weight_limit, OneCall(m)) )

\* C9 amended: the same, for limits that exceed the weight of the call plus
\* one call of the current step strictly and in every component.
C9_EventuallyCompleted ==
    InFlight ~> ( Done \/ \E m \in MigrateCalls :
                              m.before.cursor.exists /\ ~all_gt(m.weight_limit, OneCall(m)) )

\* versions 2 and 3 from a store at 1: Completed was returned at version 3
C9_Witness ==
    /\ Done
    /\ upgrade.started /\ upgrade.supported
    /\ upgrade.from = 1
    /\ on_chain_storage_version = 3
    /\ stepCalls[2] >= 1 /\ stepCalls[3] >= 1

\* C10: after a supported upgrade request the cursor is absent only when
\* the stored version is the target, and while it is present the stored
\* version is below the target.
C10_NeverLooksDone ==
    (upgrade.started /\ upgrade.supported)
    => /\ ~MigrationInProgress.exists => on_chain_storage_version = current_storage_version
       /\ MigrationInProgress.exists => on_chain_storage_version < current_storage_version

\* between two versions: the first is stored, the cursor of the second holds
\* progress
C10_Witness ==
    /\ upgrade.started /\ upgrade.supported
    /\ on_chain_storage_version = upgrade.from + 1
    /\ on_chain_storage_version < current_storage_version
    /\ MigrationInProgress = Some(<<1, 0>>)
----------------------------------------------------------------------------
\* C11: on_runtime_upgrade called while the on-chain version equals the target
\* version is a no-op: no cursor is created, MigrationInProgress and the
\* on-chain version are left exactly as they were.
C11_UpToDateIsNoOp ==
    (last.op = "on_runtime_upgrade" /\ last.before.version = current_storage_version)
        => /\ last.outcome = "noop"
           /\ Storage = last.before
           /\ ~panicked

\* on_runtime_upgrade on an up-to-date store, after a migration that ran and
\* before any migration
C11_Witness ==
    /\ last.op = "on_runtime_upgrade"
    /\ last.before.version = current_storage_version
    /\ upgrade.started
    /\ last.before = [version |-> current_storage_version, cursor |-> NoCursor]

----------------------------------------------------------------------------
\* C12: a migrate call whose limit covers the weight of the call and that
\* finds no cursor returns NoMigrationInProgress, calls no step() and leaves
\* the cursor absent and the on-chain version unchanged, also when the
\* on-chain version is not the target version.
C12_NoCursorNoMigration ==
    \A m \in MigrateCalls :
        (all_gte(m.weight_limit, migrate_weight) /\ ~m.before.cursor.exists)
            => /\ m.result = "NoMigrationInProgress"
               /\ m.calls = << >>
               /\ m.steps_done = 0
               /\ m.after = m.before
               /\ (last.op = "migrate" => Storage = m.before /\ ~panicked)

\* migrate on an idle store whose version is below the target
C12_Witness ==
    /\ last.op = "migrate"
    /\ all_gte(last.arg, migrate_weight)
    /\ ~last.before.cursor.exists
    /\ last.before.version < current_storage_version
    /\ HasStep(last.before.version + 1)
    /\ last.outcome = "NoMigrationInProgress"

----------------------------------------------------------------------------
\* C13: in_progress() is true exactly when a cursor is persisted, that is in
\* every state from an on_runtime_upgrade that wrote the cursor up to, and
\* not including, the state left by the migrate call that returns Completed;
\* ensure_migrated() returns the error exactly when in_progress() is true;
\* neither query changes the cursor or the on-chain version.
C13_InProgressWhileCursor ==
    /\ in_progress(Storage) <=> MigrationInProgress.exists
    /\ in_progress(Storage) <=> (upgrade.started /\ ~upgrade.completed)
    /\ (ensure_migrated(Storage) = "Err") <=> in_progress(Storage)
    /\ last.op = "in_progress"
          => /\ (last.outcome = "true") <=> last.before.cursor.exists
             /\ last.outcome \in {"true", "false"}
             /\ Storage = last.before
    /\ last.op = "ensure_migrated"
          => /\ (last.outcome = "Err") <=> last.before.cursor.exists
             /\ last.outcome \in {"Err", "Ok"}
             /\ Storage = last.before

\* ensure_migrated fails between two versions of a migration
C13_Witness ==
    /\ last.op = "ensure_migrated"
    /\ last.outcome = "Err"
    /\ upgrade.started
    /\ on_chain_storage_version = upgrade.from + 1
    /\ on_chain_storage_version < current_storage_version

----------------------------------------------------------------------------
\* the migrate call reached steps(): its limit covers migrate() and it found
\* a cursor
RanSteps(m) == m.before.cursor.exists /\ all_gte(m.weight_limit, migrate_weight)

\* the weight migrate passes to steps()
Budget(m) == saturating_sub(m.weight_limit, migrate_weight)

\* the progress state after n calls of step() from state self
RECURSIVE AfterCalls(_, _, _)
AfterCalls(T, self, n) ==
    IF n = 0 THEN self ELSE AfterCalls(T, step(T, self).self, n - 1)

\* the progress state the cursor held when the migrate call began
Resumed(m) == decode(CurrentStep(m.before), m.before.cursor.bytes).self

\* call number k of the migrate call reported IsFinished::Yes
FinishedAt(m, k) ==
    step(CurrentStep(m.before), AfterCalls(CurrentStep(m.before), Resumed(m), k - 1)).finished

\* the last step() call of the migrate call reported IsFinished::Yes
Finished(m) == Len(m.calls) >= 1 /\ FinishedAt(m, Len(m.calls))

\* the weight left when the loop of steps() was left
Remaining(m) ==
    IF m.calls = << >> THEN Budget(m)
    ELSE saturating_sub(m.calls[Len(m.calls)].weight_left, m.calls[Len(m.calls)].weight)

\* the calls of m are made one after the other from the weight passed in,
\* none after a call that reported finished
Consecutive(m) ==
    \A k \in 1..Len(m.calls) :
        /\ m.calls[k].weight_left =
               IF k = 1 THEN Budget(m)
               ELSE saturating_sub(m.calls[k - 1].weight_left, m.calls[k - 1].weight)
        /\ k < Len(m.calls) => ~FinishedAt(m, k)

\* what steps() returned, read from what migrate did with it
ReturnedStepCompleted(m) == m.after.version = m.before.version + 1

ReturnedStepInProgress(m) ==
    /\ m.result = "InProgress"
    /\ m.after = [m.before EXCEPT !.cursor =
           Some(encode(CurrentStep(m.before),
                       AfterCalls(CurrentStep(m.before), Resumed(m), Len(m.calls))))]

\* C14 as stated: steps() keeps calling step() while the weight left is at
\* least max_step_weight, so it makes at least one call whenever the weight
\* passed in is at least max_step_weight (a weight equal to the ceiling, and
\* a zero-ceiling no-op step with zero weight left, included); it stops only
\* when a call reported finished or the weight left is below the ceiling; it
\* returns Completed iff a call reported finished and InProgress with the
\* re-encoded state otherwise.
C14_Original ==
    \A m \in MigrateCalls :
        RanSteps(m) =>
            /\ Consecutive(m)
            /\ \A k \in 1..Len(m.calls) :
                   all_gte(m.calls[k].weight_left, CurrentStep(m.before).max_step_weight)
            /\ all_gte(Budget(m), CurrentStep(m.before).max_step_weight)
                   => Len(m.calls) >= 1
            /\ Finished(m) \/ ~all_gte(Remaining(m), CurrentStep(m.before).max_step_weight)
            /\ Finished(m) <=> ReturnedStepCompleted(m)
            /\ ~Finished(m) => ReturnedStepInProgress(m)

\* C14 amended: the same with "exceeds max_step_weight in both components"
\* for "is at least max_step_weight": at least one call exactly when the
\* weight passed in exceeds the ceiling in both components, none when it
\* equals the ceiling in a component.
C14_CallsWhileAboveCeiling ==
    \A m \in MigrateCalls :
        RanSteps(m) =>
            /\ Consecutive(m)
            /\ \A k \in 1..Len(m.calls) :
                   all_gt(m.calls[k].weight_left, CurrentStep(m.before).max_step_weight)
            /\ all_gt(Budget(m), CurrentStep(m.before).max_step_weight)
                   <=> Len(m.calls) >= 1
            /\ Finished(m) \/ ~all_gt(Remaining(m), CurrentStep(m.before).max_step_weight)
            /\ Finished(m) <=> ReturnedStepCompleted(m)
            /\ ~Finished(m) => ReturnedStepInProgress(m)

\* a counting step is not called when the weight passed in equals its
\* ceiling: the cursor is written back as it was
C14_Witness ==
    /\ last.op = "migrate"
    /\ \E m \in MigrateCalls :
          /\ RanSteps(m)
          /\ CurrentStep(m.before).kind = "count"
          /\ Budget(m) = CurrentStep(m.before).max_step_weight
          /\ m.calls = << >>
          /\ m.result = "InProgress"
          /\ m.steps_done = 0
          /\ m.after = m.before

----------------------------------------------------------------------------
\* the migrate calls of the last call of the host follow one another: each
\* begins in the storage the one before left
Chained ==
    Len(last.trace) > 0
        => /\ last.trace[1].before =
                  IF last.op = "on_runtime_upgrade_test_all_steps"
                  THEN [last.before EXCEPT
                          !.cursor = Some(new(last.before.version + 1).cursor)]
                  ELSE last.before
           /\ last.trace[Len(last.trace)].after = Storage
           /\ \A i \in 1..(Len(last.trace) - 1) :
                  last.trace[i + 1].before = last.trace[i].after

\* C15: the steps run strictly in increasing version order: the on-chain
\* version never decreases, it changes only inside a migrate call in which
\* the step for on-chain version + 1 reported finished, it increases by
\* exactly 1 in such a call, and no step() of version v + 1 is called before
\* the step of version v reported finished.
C15_IncreasingVersionOrder ==
    /\ on_chain_storage_version >= last.before.version
    /\ last.trace = << >> => on_chain_storage_version = last.before.version
    /\ Chained
    /\ \A m \in MigrateCalls :
          /\ m.after.version =
                 IF RanSteps(m) /\ Finished(m) THEN m.before.version + 1
                 ELSE m.before.version
          /\ m.calls # << >> => RanSteps(m)
          /\ \A k \in 1..Len(m.calls) : m.calls[k].VERSION = m.before.version + 1
    /\ \A v \in 0..MaxVersion :
          stepCalls[v] > 0
              => /\ upgrade.started
                 /\ upgrade.from < v
                 /\ v <= on_chain_storage_version + 1
                 /\ \A w \in (upgrade.from + 1)..(v - 1) :
                        stepCalls[w] = UnlimitedCalls(w)

\* one on_idle finishes version v and calls the step of v + 1, which does
\* not finish
C15_Witness ==
    /\ last.op = "on_idle"
    /\ Len(last.trace) >= 2
    /\ Finished(last.trace[1])
    /\ last.trace[2].calls # << >>
    /\ ~Finished(last.trace[2])
    /\ on_chain_storage_version = last.before.version + 1
    /\ stepCalls[on_chain_storage_version + 1] > 0

----------------------------------------------------------------------------
\* the encoded default state of the step with VERSION = version
DefaultCursor(version) ==
    encode(Migrations[find_step(version, 1)], default(Migrations[find_step(version, 1)]))

\* C16: when the step of in_progress_version finishes inside migrate, the
\* on-chain version becomes in_progress_version; if that is the target the
\* cursor is cleared and the result is Completed, otherwise the cursor is
\* replaced by new(in_progress_version + 1) and the result is
\* InProgress{steps_done} (new panics when no step has that version: the
\* version is put, the cursor is left).  When the step does not finish, the
\* new cursor is persisted, the version is unchanged and the result is
\* InProgress{steps_done}.  Completed is returned on no other path.
C16_ArmsOfMigrate ==
    \A m \in MigrateCalls :
        /\ RanSteps(m) =>
              /\ m.steps_done = Len(m.calls)
              /\ Finished(m) =>
                    /\ m.after.version = m.before.version + 1
                    /\ IF m.before.version + 1 = current_storage_version
                       THEN m.after.cursor = NoCursor /\ m.result = "Completed"
                       ELSE IF HasStep(m.before.version + 2)
                       THEN /\ m.after.cursor = Some(DefaultCursor(m.before.version + 2))
                            /\ m.result = "InProgress"
                       ELSE m.after.cursor = m.before.cursor /\ m.result = "Panic"
              /\ ~Finished(m) =>
                    /\ ReturnedStepInProgress(m)
                    /\ m.after.version = m.before.version
        /\ m.result = "Completed" =>
              /\ RanSteps(m)
              /\ Finished(m)
              /\ m.before.version + 1 = current_storage_version

\* a counting step that is not the target finishes after a call that did
\* not finish it; the cursor of a no-op step is written
C16_Witness ==
    /\ last.op = "migrate"
    /\ \E m \in MigrateCalls :
          /\ RanSteps(m)
          /\ Finished(m)
          /\ Resumed(m) > 0
          /\ CurrentStep(m.before).kind = "count"
          /\ m.before.version + 1 < current_storage_version
          /\ m.result = "InProgress"
          /\ CurrentStep(m.after).kind = "noop"
          /\ m.steps_done >= 1
          /\ MigrationInProgress = Some(<< >>)

----------------------------------------------------------------------------
\* the versions of the tuple are consecutive: each step's VERSION is the one
\* before it plus 1
ConsecutiveVersions ==
    \A i \in 1..(Len(Migrations) - 1) :
        Migrations[i + 1].VERSION = Migrations[i].VERSION + 1

\* C17 as stated: for every tuple of steps with consecutive versions,
\* VERSION_RANGE is (VERSION of the first step, VERSION of the last step), so
\* high - low + 1 is the number of steps, also when the first step has
\* VERSION 0.
C17_Original ==
    (last.op = "VERSION_RANGE" /\ ConsecutiveVersions)
        => /\ ~last.outcome.panic
           /\ last.outcome.low = Migrations[1].VERSION
           /\ last.outcome.high = Migrations[Len(Migrations)].VERSION
           /\ last.outcome.high - last.outcome.low + 1 = Len(Migrations)

----------------------------------------------------------------------------
\* on_runtime_upgrade on an idle store whose version is not the target
\* writes exactly new(on-chain version + 1) and leaves the version
TriggerWritesNew ==
    ( /\ last.op = "on_runtime_upgrade"
      /\ ~last.before.cursor.exists
      /\ last.before.version # current_storage_version )
    => /\ on_chain_storage_version = last.before.version
       /\ IF new(last.before.version + 1).panic
          THEN panicked /\ ~MigrationInProgress.exists
          ELSE MigrationInProgress = Some(new(last.before.version + 1).cursor)

\* the integrity test of the tuple passes for some block weight
IntegrityTestPasses ==
    \E max_block_weight \in MaxBlockWeights : ~integrity_test(Migrations, max_block_weight).panic

\* C18 as stated: for a tuple with consecutive versions, new(version) returns
\* the encoded default state of the step with VERSION = version for every
\* version in [low, high] of VERSION_RANGE and panics (invalid version) for
\* every version outside [low, high]; on_runtime_upgrade on an idle store
\* whose version is not the target writes exactly new(on-chain version + 1)
\* and does not change the version.  (Tuples that pass the integrity test.)
C18_Original ==
    /\ (last.op = "new" /\ ConsecutiveVersions /\ IntegrityTestPasses)
          => IF /\ VERSION_RANGE(Migrations).low <= last.arg
                /\ last.arg <= VERSION_RANGE(Migrations).high
             THEN ~last.outcome.panic /\ last.outcome.cursor = DefaultCursor(last.arg)
             ELSE last.outcome.panic
    /\ TriggerWritesNew

----------------------------------------------------------------------------
\* C19: the loop in front of on_idle calls migrate again and again with the
\* weight that remains; it continues only after InProgress with
\* steps_done >= 1 and stops on NoMigrationPerformed, InProgress with
\* steps_done = 0, Completed or NoMigrationInProgress.  As the weight of a
\* migrate call is positive, every call that continues the loop takes at
\* least that weight off the remaining weight, so the loop ends within the
\* on_idle call: the number of calls is bounded by the weight given.
C19_DrainLoopTerminates ==
    last.op = "on_idle" =>
        /\ Len(last.trace) >= 1
        /\ last.trace[1].weight_limit = last.arg
        /\ \A i \in 1..(Len(last.trace) - 1) :
              /\ last.trace[i].result = "InProgress"
              /\ last.trace[i].steps_done >= 1
              /\ last.trace[i + 1].weight_limit =
                     saturating_sub(last.trace[i].weight_limit, last.trace[i].weight)
              /\ all_gte(last.trace[i].weight, migrate_weight)
              /\ all_gt(last.trace[i].weight_limit, last.trace[i + 1].weight_limit)
        /\ \/ last.trace[Len(last.trace)].result
                  \in {"NoMigrationPerformed", "Completed", "NoMigrationInProgress", "Panic"}
           \/ /\ last.trace[Len(last.trace)].result = "InProgress"
              /\ last.trace[Len(last.trace)].steps_done = 0
        /\ all_gt(migrate_weight, zero)
        /\ (Len(last.trace) - 1) * migrate_weight.ref_time <= last.arg.ref_time
        /\ (Len(last.trace) - 1) * migrate_weight.proof_size <= last.arg.proof_size

\* an on_idle whose loop went round three times: two calls that made
\* progress, then one that the weight left did not cover
C19_Witness ==
    /\ last.op = "on_idle"
    /\ Len(last.trace) = 3
    /\ last.trace[1].result = "InProgress" /\ last.trace[1].steps_done >= 1
    /\ last.trace[2].result = "InProgress" /\ last.trace[2].steps_done >= 1
    /\ last.trace[3].result = "NoMigrationPerformed"

----------------------------------------------------------------------------
\* C20: in run_all_steps, migrate(Weight::MAX) is called again and again
\* until it returns Completed, and for each version v from the on-chain
\* version + 1 to the target pre_upgrade_step(v) is called before the first
\* step() of v and post_upgrade_step(v) after the step of v reported
\* finished, each exactly once per version and in increasing version order.
\* (Round i of the loop is pre_upgrade_step, migrate, post_upgrade_step; a
\* run that panics, which only an upgrade is_upgrade_supported rejects does,
\* ends in a round without post_upgrade_step.)
C20_HooksAroundEachVersion ==
    last.op = "on_runtime_upgrade_test_all_steps" =>
        /\ \A i \in 1..Len(last.trace) :
              /\ last.trace[i].weight_limit = MAX
              /\ last.trace[i].pre_upgrade_step = << last.before.version + i >>
              /\ last.trace[i].calls # << >>
              /\ \A k \in 1..Len(last.trace[i].calls) :
                     last.trace[i].calls[k].VERSION = last.before.version + i
              /\ Finished(last.trace[i])
              /\ last.trace[i].after.version = last.before.version + i
              /\ i < Len(last.trace) =>
                    /\ last.trace[i].result = "InProgress"
                    /\ last.trace[i].post_upgrade_step = << last.before.version + i >>
              /\ i = Len(last.trace) =>
                    IF last.outcome = "upgrade"
                    THEN /\ last.trace[i].result = "Completed"
                         /\ last.trace[i].post_upgrade_step = << last.before.version + i >>
                    ELSE /\ last.trace[i].result = "Panic"
                         /\ last.trace[i].post_upgrade_step = << >>
        /\ last.outcome = "upgrade" =>
              /\ Len(last.trace) = current_storage_version - last.before.version
              /\ Len(last.trace) >= 1
              /\ Storage = [version |-> current_storage_version, cursor |-> NoCursor]
              /\ \A v \in (last.before.version + 1)..current_storage_version :
                     stepCalls[v] = UnlimitedCalls(v)
        /\ last.outcome \in {"noop", "in_progress"} =>
              last.trace = << >> /\ Storage = last.before

\* a run over two versions, the first a counting step that takes more than
\* one call
C20_Witness ==
    /\ last.op = "on_runtime_upgrade_test_all_steps"
    /\ last.outcome = "upgrade"
    /\ Len(last.trace) = 2
    /\ Len(last.trace[1].calls) >= 2
    /\ last.trace[1].pre_upgrade_step = << last.before.version + 1 >>
    /\ last.trace[2].post_upgrade_step = << current_storage_version >>
    /\ ~MigrationInProgress.exists

----------------------------------------------------------------------------
\* C21: integrity_test(max_block_weight) of a tuple panics iff some step of
\* the tuple has a max_step_weight above max_block_weight in some component
\* or a max_encoded_len above the bound of Cursor (1024), whichever step of
\* the tuple it is; if it passes, every cursor new or steps writes fits the
\* bound, so neither panics on encoding.
C21_IntegrityTest ==
    /\ last.op = "integrity_test"
          => ( last.outcome.panic <=>
                 \E i \in 1..Len(Migrations) :
                     \/ Migrations[i].max_step_weight.ref_time > last.arg.ref_time
                     \/ Migrations[i].max_step_weight.proof_size > last.arg.proof_size
                     \/ max_encoded_len(Migrations[i]) > 1024 )
    /\ (last.op = "new" /\ IntegrityTestPasses /\ HasStep(last.arg))
          => ~last.outcome.panic /\ Len(last.outcome.cursor) <= 1024
    /\ (last.op = "steps" /\ IntegrityTestPasses)
          => ~last.outcome.panic /\ Len(last.outcome.cursor) <= 1024
    /\ (last.op = "new" /\ HasStep(last.arg) /\ last.outcome.panic)
          => ~IntegrityTestPasses

\* the test panics at the second step of a tuple, whose ceiling exceeds the
\* block weight in one component only
C21_Witness ==
    /\ last.op = "integrity_test"
    /\ Len(Migrations) = 2
    /\ last.outcome = [panic |-> TRUE, at |-> 2]
    /\ Migrations[2].kind = "count"
    /\ last.arg = from_parts(9, 100)

----------------------------------------------------------------------------
\* the cursor of storage st is the encoding of a progress state of the step
\* whose VERSION is the version of st plus 1, and decodes to that state
CursorOfNextVersion(st) ==
    /\ HasStep(st.version + 1)
    /\ \E self \in 0..(CurrentStep(st).total - 1) :
          /\ st.cursor.bytes = encode(CurrentStep(st), self)
          /\ decode(CurrentStep(st), st.cursor.bytes) = [ok |-> TRUE, self |-> self]

\* C22: in every state reached from an idle store by on_runtime_upgrade and
\* migrate calls, a persisted cursor is an encoding of a progress state of
\* the step whose VERSION is the on-chain version plus 1, so migrate never
\* decodes a cursor with a step of another version.  (In the state a panic
\* inside migrate leaves, no later call reads the cursor.)
C22_CursorVersionConsistency ==
    /\ (MigrationInProgress.exists /\ ~panicked) => CursorOfNextVersion(Storage)
    /\ \A m \in MigrateCalls :
          m.before.cursor.exists => CursorOfNextVersion(m.before)

\* the cursor of a counting step that follows a no-op step of the same
\* migration, after one of its calls
C22_Witness ==
    /\ MigrationInProgress = Some(<<1, 0>>)
    /\ upgrade.started
    /\ on_chain_storage_version = upgrade.from + 1
    /\ Migrations[find_step(on_chain_storage_version, 1)].kind = "noop"
    /\ CurrentStep(Storage).kind = "count"

----------------------------------------------------------------------------
\* the number of migrate calls of the last call of the host that returned
\* Completed
CompletedReturns ==
    Cardinality({ i \in 1..Len(last.trace) : last.trace[i].result = "Completed" })

\* the last call of the host began after migrate had returned Completed
BeganCompleted ==
    /\ upgrade.completed
    /\ last.before = [version |-> current_storage_version, cursor |-> NoCursor]

\* C23: Completed is absorbing.  Once migrate has returned Completed (the
\* on-chain version is the target, no cursor), every later migrate call
\* returns NoMigrationInProgress or NoMigrationPerformed, every later
\* on_runtime_upgrade is a no-op, no step() is called again and the on-chain
\* version and the cursor never change; Completed is returned exactly once
\* per migration.
C23_CompletedIsAbsorbing ==
    /\ [](upgrade.completed =>
            /\ Storage = [version |-> current_storage_version, cursor |-> NoCursor]
            /\ ~panicked
            /\ IF BeganCompleted
               THEN /\ CompletedReturns = 0
                    /\ \A m \in MigrateCalls :
                          /\ m.result \in {"NoMigrationInProgress", "NoMigrationPerformed"}
                          /\ m.calls = << >>
                    /\ last.op \in {"on_runtime_upgrade", "on_runtime_upgrade_test_all_steps"}
                          => last.outcome = "noop"
               ELSE /\ CompletedReturns = 1
                    /\ last.trace[Len(last.trace)].result = "Completed")
    /\ [][upgrade.completed =>
            /\ upgrade'.completed
            /\ UNCHANGED <<on_chain_storage_version, MigrationInProgress, stepCalls>>]_vars

\* after Completed, an on_idle with weight for several calls makes one
\* migrate call, which finds nothing to do
C23_Witness ==
    /\ BeganCompleted
    /\ last.op = "on_idle"
    /\ all_gt(last.arg, saturating_add(migrate_weight, migrate_weight))
    /\ Len(last.trace) = 1
    /\ last.trace[1].result = "NoMigrationInProgress"
    /\ stepCalls[current_storage_version] > 0

----------------------------------------------------------------------------
\* C24: the steps_done that steps() reports, and that migrate passes on in
\* InProgress{steps_done}, is the number of step() calls made during that
\* call; a Completed result of steps() has steps_done >= 1, so a version is
\* never advanced without at least one step() call of its step.
C24_StepsDoneCountsCalls ==
    /\ \A m \in MigrateCalls :
          /\ m.steps_done = Len(m.calls)
          /\ m.result \in {"NoMigrationPerformed", "NoMigrationInProgress"}
                => m.steps_done = 0
          /\ m.after.version # m.before.version
                => /\ m.steps_done >= 1
                   /\ m.calls[Len(m.calls)].VERSION = m.after.version
                   /\ Finished(m)
    /\ upgrade.started
          => \A v \in (upgrade.from + 1)..on_chain_storage_version : stepCalls[v] >= 1

\* a migrate call that finishes a version in its second call of step() and
\* passes InProgress{steps_done: 2} on
C24_Witness ==
    /\ last.op = "migrate"
    /\ last.outcome = "InProgress"
    /\ last.trace[1].steps_done = 2
    /\ Len(last.trace[1].calls) = 2
    /\ on_chain_storage_version = last.before.version + 1

----------------------------------------------------------------------------
\* the weight the migrate calls of the last call of the host returned
RECURSIVE MigrationWeight(_)
MigrationWeight(trace) ==
    IF trace = << >> THEN zero
    ELSE saturating_add(trace[1].weight, MigrationWeight(Tail(trace)))

\* C25 as stated: on every path out of the loop (NoMigrationPerformed,
\* InProgress{steps_done: 0}, Completed, NoMigrationInProgress) the rewritten
\* on_idle runs the body of the pallet's hook after the loop and returns the
\* weight the migrate calls returned plus the weight of the body.
C25_Original ==
    (last.op = "on_idle" /\ ~panicked)
        => /\ last.body_ran
           /\ \E body \in BodyWeights :
                 last.weight = saturating_add(MigrationWeight(last.trace), body)

====
